---- MODULE Spec2Model ----
(***************************************************************************)
(* k-point symmetry reduction of pyscf/pbc/lib/kpts.py: the KPoints object,*)
(* its build (map_k_points_fast -> make_kpts_ibz -> make_kpairs_ibz) and   *)
(* the operations that read the built bookkeeping.                         *)
(*                                                                         *)
(* Scaled coordinates are integers in units of a quarter of the tolerance  *)
(* KPTS_DIFF_TOL, on a torus of circumference One (the scaled coordinate   *)
(* 1.0); the meshes the KPoints objects are built from lie on a grid of    *)
(* GridN points per axis, GridStep apart.  Rotations are the integer 3x3   *)
(* matrices op.a2b(cell).rot.  Python arrays and lists are functions on    *)
(* 0..n-1.                                                                 *)
(* Weights (floats count * 1/n, doubled or halved) are exact fractions     *)
(* [num, den].                                                             *)
(***************************************************************************)
EXTENDS Integers, Sequences, FiniteSets, TLC

\* ---------------------------------------------------------------- bounds
GridN == 3        \* points per axis of the k-mesh the inputs are drawn from
MaxK == 4         \* largest number of k-points of an input mesh
MaxBuilds == 2    \* build() calls on one object (first build + re-builds)
MaxFineK == 3     \* largest number of points of a mesh given to map_k_points_fast alone

\* ----------------------------------------------------------------- units
\* KPTS_DIFF_TOL = 1e-6, in units of 0.25e-6
KPTS_DIFF_TOL == 4

\* the distance of neighbouring grid points: three times the tolerance
GridStep == 3 * KPTS_DIFF_TOL

\* the scaled coordinate 1.0
One == GridN * GridStep

\* ------------------------------------------------- python array helpers
None == "None"

Len0(f) == Cardinality(DOMAIN f)

Empty0 == [i \in {} |-> 0]

\* the array f as an explicit table of its values (the same function)
Arr(f) == f @@ Empty0

\* "name = v" followed by the statements body: v is computed once
Bind(v, body(_)) == CHOOSE r \in {body(x) : x \in {v}} : TRUE

Append0(f, v) ==
  LET n == Len0(f) IN Arr([i \in 0..n |-> IF i < n THEN f[i] ELSE v])

Concat0(f, g) ==
  LET n == Len0(f)
      m == Len0(g)
  IN  Arr([i \in 0..(n + m - 1) |-> IF i < n THEN f[i] ELSE g[i - n]])

Reverse0(f) == LET n == Len0(f) IN Arr([i \in DOMAIN f |-> f[n - 1 - i]])

Range0(f) == {f[i] : i \in DOMAIN f}

\* a[idx] for one python index: -1 is the last element
PyIdx(i, size) == IF i < 0 THEN size + i ELSE i

\* the elements of a finite set of integers in increasing order
SortSet(S) ==
  Arr([i \in 0..(Cardinality(S) - 1) |-> CHOOSE v \in S : Cardinality({w \in S : w < v}) = i])

MaxOf(S) == CHOOSE v \in S : \A w \in S : w <= v

MinOf(S) == CHOOSE v \in S : \A w \in S : v <= w

\* ------------------------------------------------------ symmetry operations
E == <<<<1, 0, 0>>, <<0, 1, 0>>, <<0, 0, 1>>>>

Inversion == <<<<-1, 0, 0>>, <<0, -1, 0>>, <<0, 0, -1>>>>

Mx == <<<<-1, 0, 0>>, <<0, 1, 0>>, <<0, 0, 1>>>>

\* the mirror that exchanges the x and y axes
Mxy == <<<<0, 1, 0>>, <<1, 0, 0>>, <<0, 0, 1>>>>

C4z == <<<<0, -1, 0>>, <<1, 0, 0>>, <<0, 0, 1>>>>

C2z == <<<<-1, 0, 0>>, <<0, -1, 0>>, <<0, 0, 1>>>>

C4z3 == <<<<0, 1, 0>>, <<-1, 0, 0>>, <<0, 0, 1>>>>

\* -op_rot (make_kpts_ibz appends these for time reversal)
NegOp(op) ==
  << <<-op[1][1], -op[1][2], -op[1][3]>>,
     <<-op[2][1], -op[2][2], -op[2][3]>>,
     <<-op[3][1], -op[3][2], -op[3][3]>> >>

\* np.dot(k, op.T) for one scaled k-point, reduced to the first cell (mod 1)
MatVec(op, k) ==
  << (op[1][1] * k[1] + op[1][2] * k[2] + op[1][3] * k[3]) % One,
     (op[2][1] * k[1] + op[2][2] * k[2] + op[2][3] * k[3]) % One,
     (op[3][1] * k[1] + op[3][2] * k[2] + op[3][3] * k[3]) % One >>

\* op.is_eye / op.is_inversion of a symmorphic operation (zero translation)
is_eye(op) == op = E

is_inversion(op) == op = Inversion

\* the operation lists (point groups, identity first) a cell can have
CellGroups ==
  { Arr([i \in 0..1 |-> <<E, Inversion>>[i + 1]]),
    Arr([i \in 0..1 |-> <<E, Mx>>[i + 1]]),
    Arr([i \in 0..1 |-> <<E, Mxy>>[i + 1]]),
    Arr([i \in 0..3 |-> <<E, C4z, C2z, C4z3>>[i + 1]]) }

\* ------------------------------------------------------------ input meshes
\* scaled grid points on the two axes of the z = 0 plane
KGrid ==
  {<<x * GridStep, 0, 0>> : x \in 0..(GridN - 1)} \cup {<<0, y * GridStep, 0>> : y \in 0..(GridN - 1)}

PtKey(p) == (p[3] * One + p[2]) * One + p[1]

\* the points of S in increasing (z, y, x) order
SortedMesh(S) ==
  Arr([i \in 0..(Cardinality(S) - 1) |->
         CHOOSE p \in S : Cardinality({q \in S : PtKey(q) < PtKey(p)}) = i])

\* meshes of 1..MaxK pairwise inequivalent points
ScaledMeshes ==
  {SortedMesh(S) : S \in {T \in SUBSET KGrid : Cardinality(T) >= 1 /\ Cardinality(T) <= MaxK}}

\* offsets from a grid point, within twice the tolerance
FineOffsets == {-KPTS_DIFF_TOL, -3, 0, 1, 2 * KPTS_DIFF_TOL - 1}

\* the points on the x and the y axis at an offset from a grid point
FineGrid ==
  UNION {{<<(g * GridStep + d) % One, 0, 0>>, <<0, (g * GridStep + d) % One, 0>>} :
           g \in 0..(GridN - 1), d \in FineOffsets}

\* meshes of 1..n distinct points that may lie closer than the tolerance
FineMeshes(n) == {SortedMesh({pts[i] : i \in 1..n}) : pts \in [1..n -> FineGrid]}

\* cell.get_abs_kpts / cell.get_scaled_kpts for a cubic cell whose reciprocal
\* lattice vectors have length 2 per grid step
get_abs_kpts(ks) == Arr([i \in DOMAIN ks |-> <<2 * ks[i][1], 2 * ks[i][2], 2 * ks[i][3]>>])

get_scaled_kpts(ka) ==
  Arr([i \in DOMAIN ka |-> <<ka[i][1] \div 2, ka[i][2] \div 2, ka[i][3] \div 2>>])

\* --------------------------------------------------------- map_k_points_fast
\* aglomerate_points: per axis, sort the values, cut where the gap exceeds tol,
\* and snap every value of a run to the first (smallest) value of the run
aglomerate_points(k_kc, tol) ==
  LET vals == [c \in 1..3 |-> {k_kc[j][c] : j \in DOMAIN k_kc}]
      \* v starts a run when no value lies within tol below it
      starts == Arr([c \in 1..3 |->
                       {v \in vals[c] : \A w \in vals[c] : ~(w < v /\ v - w <= tol)}])
      snap(v, c) == MaxOf({w \in starts[c] : w <= v})
  IN  Arr([i \in DOMAIN k_kc |->
             <<snap(k_kc[i][1], 1), snap(k_kc[i][2], 2), snap(k_kc[i][3], 3)>>])

\* x.round(-log10(tol)): to the nearest multiple of tol, a tie to the even multiple
round_tol(x, tol) ==
  LET q == x \div tol
      r == x % tol
  IN  IF 2 * r < tol \/ (2 * r = tol /\ q % 2 = 0) THEN q * tol ELSE (q + 1) * tol

\* np.lexsort(k_kc.T): last column is the primary key; stable
lexsort(k_kc) ==
  LET key == Arr([a \in DOMAIN k_kc |-> PtKey(k_kc[a])])
      Less(a, b) == key[a] < key[b] \/ (key[a] = key[b] /\ a < b)
      rank == Arr([a \in DOMAIN k_kc |-> Cardinality({b \in DOMAIN k_kc : Less(b, a)})])
  IN  Arr([r \in DOMAIN k_kc |-> CHOOSE a \in DOMAIN k_kc : rank[a] = r])

\* the 2N rows of one operation: the mesh followed by its image
map_rows(kpts_scaled, op, tol) ==
  LET nkpts == Len0(kpts_scaled)
      k_kc == Arr([i \in 0..(2 * nkpts - 1) |->
                     IF i < nkpts
                     THEN <<kpts_scaled[i][1] % One, kpts_scaled[i][2] % One,
                            kpts_scaled[i][3] % One>>
                     ELSE MatVec(op, kpts_scaled[i - nkpts])])
      snapped == aglomerate_points(k_kc, tol)
  IN  Arr([i \in DOMAIN snapped |->
             <<round_tol(snapped[i][1], tol) % One, round_tol(snapped[i][2], tol) % One,
               round_tol(snapped[i][3], tol) % One>>])

\* orders: the pairs (order[r], order[r+1]) of lexicographically adjacent equal rows
map_orders(kpts_scaled, op, tol) ==
  LET k_kc == map_rows(kpts_scaled, op, tol)
      order == lexsort(k_kc)
  IN  {<<order[r], order[r + 1]>> : r \in {q \in DOMAIN order :
          q + 1 \in DOMAIN order /\ k_kc[order[q]] = k_kc[order[q + 1]]}}

\* the two assertions of map_k_points_fast, for every operation
map_asserts_ok(kpts_scaled, ops, tol) ==
  \A s \in DOMAIN ops : \A o \in map_orders(kpts_scaled, ops[s], tol) :
     o[1] < Len0(kpts_scaled) /\ o[2] >= Len0(kpts_scaled)

\* bz2bz_ks[k1][s] = k2 when ops[s] k1 = k2 + K, -1 when no mesh point is the image
map_k_points_fast(kpts_scaled, ops, tol) ==
  LET nkpts == Len0(kpts_scaled)
      orders == Arr([s \in DOMAIN ops |-> map_orders(kpts_scaled, ops[s], tol)])
  IN  Arr([k \in 0..(nkpts - 1) |->
         Arr([s \in DOMAIN ops |->
            LET hit == {o \in orders[s] : o[2] - nkpts = k}
            IN  IF hit = {} THEN -1 ELSE (CHOOSE o \in hit : TRUE)[1]])])

\* "-1 in bz2bz_ks[:, io]"
column_has_none(bz2bz_ks, io) == \E k \in DOMAIN bz2bz_ks : bz2bz_ks[k][io] = -1

\* -------------------------------------------------------- orbit claim pass
\* the slip "claimed[table[k][0]] = k": only the first image is claimed
claim_targets_first_only(row, size) == {PyIdx(row[0], size)}

\* the slots "claimed[table[k]] = k" writes (index -1 is the spare last slot)
claim_targets(row, size) == {PyIdx(row[s], size) : s \in DOMAIN row}

\* the body of the loop for one k: an unclaimed k becomes a representative and
\* claims every image; st.claimed has one spare slot at the end
claim_step(k, table, st) ==
  IF st.claimed[k] = -1
  THEN LET targets == claim_targets(table[k], Len0(st.claimed))
       IN  [claimed |-> Arr([t \in DOMAIN st.claimed |->
                               IF t \in targets THEN k ELSE st.claimed[t]]),
            reps |-> Append0(st.reps, k)]
  ELSE st

\* the slip "for k in range(lo, k+1)": the stretch is walked upwards
RECURSIVE claim_range_ascending(_, _, _, _)
claim_range_ascending(k, lo, table, st) ==
  IF k < lo THEN st
  ELSE Bind(claim_range_ascending(k - 1, lo, table, st), LAMBDA st1 : claim_step(k, table, st1))

\* the iterations k, k-1, ..., lo of the loop
RECURSIVE claim_range(_, _, _, _)
claim_range(k, lo, table, st) ==
  IF k < lo THEN st
  ELSE Bind(claim_step(k, table, st), LAMBDA st1 : claim_range(k - 1, lo, table, st1))

\* the iterations (b+1)*width - 1, ..., 0 of the loop, a stretch of width at a time
RECURSIVE claim_stretches(_, _, _, _)
claim_stretches(b, width, table, st) ==
  IF b < 0 THEN st
  ELSE Bind(claim_range(b * width + width - 1, b * width, table, st),
            LAMBDA st1 : claim_stretches(b - 1, width, table, st1))

\* the loop "for k in range(n-1, -1, -1)" over a table of n = m * width rows,
\* from claimed = -np.ones(n+1) and no representatives
claim_pass(n, width, table) ==
  claim_stretches((n \div width) - 1, width, table,
                  [claimed |-> Arr([t \in 0..n |-> -1]), reps |-> Empty0])

\* value of an element of np.empty that was never written
UNINIT == -2

\* bz2ibz = tmp[bz2bz][:], tmp = np.empty(n); tmp[ibz2bz] = arange(len(ibz2bz))
invert_claims(claimed, ibz2bz, n) ==
  LET reps == Range0(ibz2bz)
      tmp == Arr([k \in 0..(n - 1) |->
                    IF k \in reps THEN CHOOSE i \in DOMAIN ibz2bz : ibz2bz[i] = k
                    ELSE UNINIT])
  IN  Arr([k \in 0..(n - 1) |-> tmp[PyIdx(claimed[k], n)]])

\* np.bincount: one counter per value 0..max
bincount(arr) ==
  Arr([i \in 0..MaxOf(Range0(arr)) |-> Cardinality({k \in DOMAIN arr : arr[k] = i})])

\* np.bincount(arr) * (1.0 / n)
weights_of(arr, n) ==
  LET counts == bincount(arr)
  IN  Arr([i \in DOMAIN counts |-> [num |-> counts[i], den |-> n]])

\* np.absolute(diff - diff.round()) of one component
frac_dist(diff) == IF 2 * (diff % One) <= One THEN diff % One ELSE One - (diff % One)

\* the first operation io (of the doubled list) whose column has no -1 and that
\* takes the representative's scaled point to the BZ point; -1 when there is none
first_connecting_op(bz_k_scaled, ibz_k_scaled, op_rot, bz2bz_ks) ==
  LET ok == {io \in DOMAIN op_rot :
               /\ ~column_has_none(bz2bz_ks, io)
               /\ \A c \in 1..3 :
                    frac_dist(bz_k_scaled[c] - MatVec(op_rot[io], ibz_k_scaled)[c])
                       < KPTS_DIFF_TOL}
  IN  IF ok = {} THEN -1 ELSE MinOf(ok)

\* np.where(bz2ibz == i)[0]
star_of(bz2ibz, i) == SortSet({k \in DOMAIN bz2ibz : bz2ibz[k] = i})

\* the operations "stars_ops[i].append(io % nop)" adds for the members idx of an
\* orbit, in the order of the members; a member without connecting operation adds none
star_ops_found(idx, kpts_scaled, ibz_k_scaled, op_rot, bz2bz_ks, nop) ==
  LET io == Arr([j \in DOMAIN idx |->
                   first_connecting_op(kpts_scaled[idx[j]], ibz_k_scaled, op_rot, bz2bz_ks)])
      hits == SortSet({j \in DOMAIN idx : io[j] # -1})
  IN  Arr([n \in DOMAIN hits |-> io[hits[n]] % nop])

\* the loop "for i in range(kpts.nkpts_ibz)": every pass appends one list to stars
\* and one to stars_ops, and extends stars_ops[i], counted from the start of the list
fill_stars(acc, bz2ibz, ibz2bz, kpts_scaled, op_rot, bz2bz_ks, nop) ==
  LET nibz == Len0(ibz2bz)
      appended == Concat0(acc.stars_ops, Arr([i \in 0..(nibz - 1) |-> Empty0]))
      found == Arr([i \in 0..(nibz - 1) |->
                      star_ops_found(star_of(bz2ibz, i), kpts_scaled, kpts_scaled[ibz2bz[i]],
                                     op_rot, bz2bz_ks, nop)])
  IN  [stars |-> Concat0(acc.stars, Arr([i \in 0..(nibz - 1) |-> star_of(bz2ibz, i)])),
       stars_ops |-> Arr([j \in DOMAIN appended |->
                            IF j < nibz THEN Concat0(appended[j], found[j]) ELSE appended[j]])]

\* the slip of dropping "if kpts.time_reversal": the negatives are always appended
op_rot_always_doubled(ops, time_reversal) ==
  Concat0(ops, Arr([i \in DOMAIN ops |-> NegOp(ops[i])]))

\* op_rot of make_kpts_ibz: the rotations, doubled by their negatives under time reversal
op_rot_of(ops, time_reversal) ==
  IF time_reversal THEN Concat0(ops, Arr([i \in DOMAIN ops |-> NegOp(ops[i])])) ELSE ops

\* make_kpts_ibz(kpts): the object after the call
make_kpts_ibz(kp) ==
  Bind(op_rot_of(kp.ops, kp.time_reversal), LAMBDA op_rot :
  Bind(map_k_points_fast(kp.kpts_scaled, op_rot, KPTS_DIFF_TOL), LAMBDA bz2bz_ks :
  Bind(claim_pass(kp.nkpts, kp.nkpts, bz2bz_ks), LAMBDA pass :
  Bind(Reverse0(pass.reps), LAMBDA ibz2bz_k :
  Bind(invert_claims(pass.claimed, ibz2bz_k, kp.nkpts), LAMBDA bz2ibz_k :
  Bind(Arr([i \in DOMAIN ibz2bz_k |-> kp.kpts_scaled[ibz2bz_k[i]]]), LAMBDA kpts_scaled_ibz :
  Bind(Arr([k \in 0..(kp.nkpts - 1) |->
              first_connecting_op(kp.kpts_scaled[k], kpts_scaled_ibz[bz2ibz_k[k]],
                                  op_rot, bz2bz_ks)]), LAMBDA conn :
  Bind(fill_stars([stars |-> kp.stars, stars_ops |-> kp.stars_ops],
                  bz2ibz_k, ibz2bz_k, kp.kpts_scaled, op_rot, bz2bz_ks, kp.nop), LAMBDA filled :
    [kp EXCEPT
       !.k2opk = bz2bz_ks,
       !.bz2ibz = bz2ibz_k,
       !.ibz2bz = ibz2bz_k,
       !.weights_ibz = weights_of(bz2ibz_k, kp.nkpts),
       !.kpts_scaled_ibz = kpts_scaled_ibz,
       !.kpts_ibz = get_abs_kpts(kpts_scaled_ibz),
       !.nkpts_ibz = Len0(ibz2bz_k),
       !.time_reversal_symm_bz =
          Arr([k \in 0..(kp.nkpts - 1) |-> IF conn[k] = -1 THEN @[k] ELSE conn[k] \div kp.nop]),
       !.stars_ops_bz =
          Arr([k \in 0..(kp.nkpts - 1) |-> IF conn[k] = -1 THEN @[k] ELSE conn[k] % kp.nop]),
       !.stars = filled.stars,
       !.stars_ops = filled.stars_ops]))))))))

\* ------------------------------------------------------------ make_kpairs_ibz
\* bz2bz_ksks[i*n + j][iop]: the flat index of the image pair, -1 when either
\* component has no image
pair_table(bz2bz_ks, nbzk) ==
  Arr([k \in 0..(nbzk * nbzk - 1) |->
     Arr([iop \in DOMAIN bz2bz_ks[0] |->
        LET a == bz2bz_ks[k \div nbzk][iop]
            b == bz2bz_ks[k % nbzk][iop]
        IN  IF a = -1 \/ b = -1 THEN -1 ELSE a * nbzk + b])])

\* the slip of recording the last operation that gives each image
unique_images_last_index(row) ==
  LET vals == SortSet(Range0(row) \ {-1})
  IN  [k_idx |-> vals,
       op_idx |-> Arr([i \in DOMAIN vals |-> MaxOf({s \in DOMAIN row : row[s] = vals[i]})])]

\* np.unique(row, return_index=True) with a leading -1 dropped:
\* the distinct images in increasing order and, for each, the first operation giving it
unique_images(row) ==
  LET vals == SortSet(Range0(row) \ {-1})
  IN  [k_idx |-> vals,
       op_idx |-> Arr([i \in DOMAIN vals |-> MinOf({s \in DOMAIN row : row[s] = vals[i]})])]

\* np.sort(idx_ij, axis=0) of one representative, as the key np.unique orders columns by
sorted_pair_key(flat, nbzk) ==
  LET i == flat \div nbzk
      j == flat % nbzk
  IN  (IF i < j THEN i ELSE j) * nbzk + (IF i < j THEN j ELSE i)

\* idx_ij_s2: np.unique(idx_ij_sort, axis=1, return_index=True)[1], the first
\* position in ibz2bz_kk of every distinct sorted pair, in the order of the sorted pairs
unique_sorted_pairs(ibz2bz_kk, nbzk) ==
  LET keys == SortSet({sorted_pair_key(ibz2bz_kk[o], nbzk) : o \in DOMAIN ibz2bz_kk})
  IN  Arr([r \in DOMAIN keys |->
         MinOf({o \in DOMAIN ibz2bz_kk : sorted_pair_key(ibz2bz_kk[o], nbzk) = keys[r]})])

\* the slip of leaving out the halving loop: off-diagonal weights are only doubled
s2_weight_no_halving(w, flat, ibz2bz_kk, nbzk) ==
  IF (flat \div nbzk) # (flat % nbzk) THEN [num |-> 2 * w.num, den |-> w.den] ELSE w

\* ibz_kk_s2_weight of one entry: doubled off the diagonal, then halved when the
\* swapped pair is not itself in ibz2bz_kk
s2_weight(w, flat, ibz2bz_kk, nbzk) ==
  LET i == flat \div nbzk
      j == flat % nbzk
      doubled == IF i # j THEN [num |-> 2 * w.num, den |-> w.den] ELSE w
  IN  IF (j * nbzk + i) \notin Range0(ibz2bz_kk)
      THEN [num |-> doubled.num, den |-> 2 * doubled.den]
      ELSE doubled

\* make_kpairs_ibz(kpts, permutation_symmetry): the object after the call
make_kpairs_ibz(kp, permutation_symmetry) ==
  Bind(kp.nkpts, LAMBDA nbzk :
  Bind(pair_table(kp.k2opk, nbzk), LAMBDA bz2bz_ksks :
  Bind(claim_pass(nbzk * nbzk, nbzk, bz2bz_ksks), LAMBDA pass :
  Bind(Reverse0(pass.reps), LAMBDA ibz2bz_kk :
  Bind(invert_claims(pass.claimed, ibz2bz_kk, nbzk * nbzk), LAMBDA bz2ibz_kk :
  Bind(weights_of(bz2ibz_kk, nbzk * nbzk), LAMBDA ibz_kk_weight :
  Bind(unique_sorted_pairs(ibz2bz_kk, nbzk), LAMBDA idx_ij_s2 :
  Bind(Arr([o \in DOMAIN ibz2bz_kk |-> unique_images(bz2bz_ksks[ibz2bz_kk[o]])]),
       LAMBDA groups :
  Bind([kp EXCEPT
          !.ibz2bz_kk = ibz2bz_kk,
          !.bz2ibz_kk = bz2ibz_kk,
          !.kk_group = Arr([o \in DOMAIN ibz2bz_kk |-> groups[o].k_idx]),
          !.kk_sym_group = Arr([o \in DOMAIN ibz2bz_kk |-> groups[o].op_idx]),
          !.ibz_kk_weight = ibz_kk_weight], LAMBDA kp1 :
    IF permutation_symmetry
    THEN [kp1 EXCEPT
            !.ibz2bz_kk_s2 = Arr([r \in DOMAIN idx_ij_s2 |-> ibz2bz_kk[idx_ij_s2[r]]]),
            !.ibz_kk_s2_weight =
               Arr([r \in DOMAIN idx_ij_s2 |->
                      s2_weight(ibz_kk_weight[idx_ij_s2[r]], ibz2bz_kk[idx_ij_s2[r]],
                                ibz2bz_kk, nbzk)])]
    ELSE kp1)))))))))

\* ------------------------------------------------------------------ KPoints
\* symm.Symmetry.__init__ and KPoints.__init__
KPoints_init(kpts) ==
  LET nkpts == Len0(kpts)
  IN  [ops |-> [i \in 0..0 |-> E], nop |-> 1, has_inversion |-> FALSE,
       time_reversal |-> FALSE,
       kpts |-> kpts, kpts_ibz |-> kpts,
       kpts_scaled |-> None, kpts_scaled_ibz |-> None,
       nkpts |-> nkpts, nkpts_ibz |-> nkpts,
       weights |-> [k \in 0..(nkpts - 1) |-> [num |-> 1, den |-> nkpts]],
       weights_ibz |-> [k \in 0..(nkpts - 1) |-> [num |-> 1, den |-> nkpts]],
       ibz2bz |-> [k \in 0..(nkpts - 1) |-> k],
       bz2ibz |-> [k \in 0..(nkpts - 1) |-> k],
       k2opk |-> None,
       stars |-> Empty0, stars_ops |-> Empty0,
       stars_ops_bz |-> [k \in 0..(nkpts - 1) |-> 0],
       time_reversal_symm_bz |-> [k \in 0..(nkpts - 1) |-> 0],
       ibz2bz_kk |-> None, ibz_kk_weight |-> None,
       ibz2bz_kk_s2 |-> None, ibz_kk_s2_weight |-> None,
       bz2ibz_kk |-> None, kk_group |-> None, kk_sym_group |-> None]

\* symm.Symmetry.build: the cell's operations, or the identity alone without
\* space-group symmetry; has_inversion tells whether the inversion is among them
Symmetry_build(kp, cellops, space_group_symmetry) ==
  LET ops == IF space_group_symmetry THEN cellops ELSE [i \in 0..0 |-> E]
  IN  [kp EXCEPT !.ops = ops, !.nop = Len0(ops),
                 !.has_inversion = \E i \in DOMAIN ops : is_inversion(ops[i])]

\* KPoints.build on a built cell: the object after the call
KPoints_build(kp, cellops, space_group_symmetry, time_reversal_symmetry, make_kpairs) ==
  Bind(Symmetry_build(kp, cellops, space_group_symmetry), LAMBDA kp1 :
  Bind([kp1 EXCEPT
          !.time_reversal = time_reversal_symmetry /\ ~kp1.has_inversion,
          !.kpts_scaled = get_scaled_kpts(kp1.kpts),
          !.kpts_scaled_ibz = get_scaled_kpts(kp1.kpts)], LAMBDA kp2 :
  Bind(make_kpts_ibz(kp2), LAMBDA kp3 :
    IF make_kpairs THEN make_kpairs_ibz(kp3, TRUE) ELSE kp3)))

\* kpts_helper.member(kpt, kpts): the indices of the k-points equal to kpt
member(kpt, kpts) == {j \in DOMAIN kpts : kpts[j] = kpt}

\* the slip of skipping every member of the representative's orbit
gdf_row_skip_orbit(kp, i) ==
  LET js == SortSet({j \in 0..(kp.nkpts - 1) : kp.bz2ibz[j] # i})
  IN  Arr([n \in DOMAIN js |-> <<kp.kpts_ibz[i], kp.kpts[js[n]]>>])

\* the pairs the second loop of make_gdf_kptij_lst_jk emits for representative i
gdf_row(kp, i) ==
  LET where == member(kp.kpts_ibz[i], kp.kpts)
      js == SortSet({j \in 0..(kp.nkpts - 1) : j \notin where})
  IN  Arr([n \in DOMAIN js |-> <<kp.kpts_ibz[i], kp.kpts[js[n]]>>])

RECURSIVE gdf_rows(_, _)
gdf_rows(kp, i) == IF i < 0 THEN Empty0 ELSE Concat0(gdf_rows(kp, i - 1), gdf_row(kp, i))

\* KPoints.make_gdf_kptij_lst_jk
make_gdf_kptij_lst_jk(kp) ==
  Concat0(Arr([i \in 0..(kp.nkpts - 1) |-> <<kp.kpts[i], kp.kpts[i]>>]),
          gdf_rows(kp, kp.nkpts_ibz - 1))

\* ------------------------------------------------------- quantity transport
\* An IBZ quantity is a symbol: which IBZ entry (and spin) it is, whether it
\* has been conjugated, and the rotation representation applied to it
Quantity(spin, i) == [spin |-> spin, ibz |-> i, conj |-> FALSE, rot |-> <<>>]

\* Q.conj()
conj(q) == [q EXCEPT !.conj = ~@]

\* symm.transform_mo_coeff / symm.transform_dm(cell, kpt, Q, op, Dmats[iop])
symm_transform(kind, q, iop) == [q EXCEPT !.rot = <<kind, iop>>]

\* the slip of ignoring time reversal at the identity
transform_one_eye_ignores_tr(kind, kp, q, iop, time_reversal) ==
  IF is_eye(kp.ops[iop])
  THEN q
  ELSE IF is_inversion(kp.ops[iop])
       THEN conj(q)
       ELSE IF time_reversal # 0
            THEN conj(symm_transform(kind, q, iop))
            ELSE symm_transform(kind, q, iop)

\* the body shared by transform_mo_coeff_k and the _transform closures:
\* the BZ value of q at a point reached by ops[iop] and the flag time_reversal
transform_one(kind, kp, q, iop, time_reversal) ==
  IF is_eye(kp.ops[iop])
  THEN IF time_reversal # 0 THEN conj(q) ELSE q
  ELSE IF is_inversion(kp.ops[iop])
       THEN conj(q)
       ELSE IF time_reversal # 0
            THEN conj(symm_transform(kind, q, iop))
            ELSE symm_transform(kind, q, iop)

\* "op = kpts.ops[iop]" raises IndexError for this BZ point
ops_index_error(kp, k) == kp.stars_ops_bz[k] \notin DOMAIN kp.ops

Returned(v) == [raised |-> None, value |-> v]

Raised(e) == [raised |-> e, value |-> None]

\* map_k_points_fast(kpts_scaled, ops, tol): the table, or the AssertionError of
\* one of its two assertions
map_k_points_fast_ret(kpts_scaled, ops, tol) ==
  IF map_asserts_ok(kpts_scaled, ops, tol)
  THEN Returned(map_k_points_fast(kpts_scaled, ops, tol))
  ELSE Raised("AssertionError")

\* transform_mo_coeff_k(kpts, mo_coeff_ibz, k)
transform_mo_coeff_k(kp, mo_coeff_ibz, k) ==
  IF ops_index_error(kp, k) THEN Raised("IndexError")
  ELSE Returned(transform_one("mo_coeff", kp, mo_coeff_ibz[kp.bz2ibz[k]],
                              kp.stars_ops_bz[k], kp.time_reversal_symm_bz[k]))

\* the loop over k of transform_mo_coeff and transform_dm for one spin channel
transform_list(kind, kp, q_ibz) ==
  Arr([k \in 0..(kp.nkpts - 1) |->
         transform_one(kind, kp, q_ibz[kp.bz2ibz[k]],
                       kp.stars_ops_bz[k], kp.time_reversal_symm_bz[k])])

\* the loop over k of transform_mo_occ and transform_mo_energy for one spin channel
lookup_list(kp, q_ibz) == Arr([k \in 0..(kp.nkpts - 1) |-> q_ibz[kp.bz2ibz[k]]])

\* an IBZ-indexed input: one array, or the pair of spin arrays when is_uhf
IbzInput(kp, is_uhf) ==
  LET chan(s) == Arr([i \in 0..(kp.nkpts_ibz - 1) |-> Quantity(s, i)])
  IN  IF is_uhf THEN Arr([s \in 0..1 |-> chan(s)]) ELSE chan(0)

\* transform_mo_coeff, transform_dm, transform_mo_occ, transform_mo_energy
transform_all(fn, kp, q_ibz, is_uhf) ==
  LET one(q) == IF fn = "transform_mo_coeff" THEN transform_list("mo_coeff", kp, q)
                ELSE IF fn = "transform_dm" THEN transform_list("dm", kp, q)
                ELSE lookup_list(kp, q)
  IN  IF /\ fn \in {"transform_mo_coeff", "transform_dm"}
         /\ \E k \in 0..(kp.nkpts - 1) : ops_index_error(kp, k)
      THEN Raised("IndexError")
      ELSE Returned(IF is_uhf THEN Arr([s \in 0..1 |-> one(q_ibz[s])]) ELSE one(q_ibz))

TransformFns == {"transform_mo_coeff", "transform_dm", "transform_mo_occ", "transform_mo_energy"}

\* ---------------------------------------------------- check_mo_occ_symmetry
\* the default tol of check_mo_occ_symmetry; occupations are in units of tol/2
OccTol == 2

Abs(x) == IF x < 0 THEN -x ELSE x

\* the slip "<= tol"
occ_close_inclusive(a, b, tol) == \A c \in DOMAIN a : Abs(a[c] - b[c]) <= tol

\* (np.absolute(a - b) < tol).all()
occ_close(a, b, tol) == \A c \in DOMAIN a : Abs(a[c] - b[c]) < tol

\* the double loop over kpts.stars: TRUE when "Symmetry broken" is raised
occ_symmetry_broken(kp, mo_occ, tol) ==
  \E s \in DOMAIN kp.stars :
     \E i \in DOMAIN kp.stars[s], j \in DOMAIN kp.stars[s] :
        i < j /\ ~occ_close(mo_occ[kp.stars[s][i]], mo_occ[kp.stars[s][j]], tol)

\* check_mo_occ_symmetry(kpts, mo_occ, tol): what it raises or returns
check_mo_occ_symmetry(kp, mo_occ, tol) ==
  IF occ_symmetry_broken(kp, mo_occ, tol)
  THEN Raised("RuntimeError")
  ELSE Returned(Arr([k \in 0..(kp.nkpts_ibz - 1) |-> mo_occ[kp.ibz2bz[k]]]))

\* the perturbations of one occupation vector the inputs are drawn from
OccDeltas == {<<0, 0>>, <<1, 0>>, <<0, OccTol>>}

\* BZ occupations that are equal within every orbit of bz2ibz, with the vector of
\* the one point kpert shifted by delta
OccInput(kp, kpert, delta) ==
  Arr([k \in 0..(kp.nkpts - 1) |->
         IF k = kpert THEN <<OccTol * kp.bz2ibz[k] + delta[1], delta[2]>>
         ELSE <<OccTol * kp.bz2ibz[k], 0>>])

\* -------------------------------------------------------- symmetrize_density
\* op.inv().rot of a symmorphic operation: the rotations are orthogonal
op_inv(op) == <<<<op[1][1], op[2][1], op[3][1]>>, <<op[1][2], op[2][2], op[3][2]>>,
                <<op[1][3], op[2][3], op[3][3]>>>>

\* the dtypes of rhoR_k the calls are made with
DTypes == {"double", "complex128", "float32"}

\* what one pass of the loop adds to rhoR: rhoR_k itself, or the output of the
\* external kernel libpbc.symmetrize / symmetrize_complex for the inverse rotation
density_term(kp, dtype, iop) ==
  IF is_eye(kp.ops[iop]) \/ is_inversion(kp.ops[iop])
  THEN [iop |-> iop, kernel |-> None, op_rot |-> None]
  ELSE [iop |-> iop,
        kernel |-> IF dtype = "double" THEN "symmetrize" ELSE "symmetrize_complex",
        op_rot |-> op_inv(kp.ops[iop])]

\* the slip of looping over the operations that fix the representative
symmetrize_density_over_stabilizer(kp, dtype, ibz_k_idx) ==
  LET fix == SortSet({s \in 0..(kp.nop - 1) :
                        kp.k2opk[kp.ibz2bz[ibz_k_idx]][s] = kp.ibz2bz[ibz_k_idx]})
  IN  IF dtype \notin {"double", "complex128"} THEN Raised("RuntimeError")
      ELSE Returned(Arr([n \in DOMAIN fix |-> density_term(kp, dtype, fix[n])]))

\* symmetrize_density(kpts, rhoR_k, ibz_k_idx, mesh): the terms summed into rhoR,
\* in the order of the loop over kpts.stars_ops[ibz_k_idx]
symmetrize_density(kp, dtype, ibz_k_idx) ==
  LET iops == kp.stars_ops[ibz_k_idx]
  IN  IF dtype \notin {"double", "complex128"} THEN Raised("RuntimeError")
      ELSE IF \E n \in DOMAIN iops : iops[n] \notin DOMAIN kp.ops THEN Raised("IndexError")
      ELSE Returned(Arr([n \in DOMAIN iops |-> density_term(kp, dtype, iops[n])]))

\* ------------------------------------------------------------------- state
VARIABLES
  cell,     \* the Cell: its operation list and whether cell.build() has run
  self,     \* the KPoints object
  nbuilds,  \* build() calls made on the object so far
  call,     \* the last call made on the object and its arguments
  ret       \* what that call returned or raised

vars == <<cell, self, nbuilds, call, ret>>

\* KPoints(cell, kpts) just constructed
Init ==
  /\ cell \in [ops : CellGroups, built : BOOLEAN]
  /\ \E m \in ScaledMeshes : self = KPoints_init(get_abs_kpts(m))
  /\ nbuilds = 0
  /\ call = [op |-> "KPoints", args |-> <<>>]
  /\ ret = None

\* build() has completed on the object at least once
Built == cell.built /\ nbuilds >= 1

\* the object is as the last build() left it: the calls below are made on a
\* freshly built or re-built object
Fresh == Built /\ call.op = "build"

\* kpts.build(...) / make_kpts(cell, kpts, ...) while the cell is not built: returns None
BuildUnbuiltCell ==
  /\ ~cell.built
  /\ nbuilds < MaxBuilds
  /\ \E sgs \in BOOLEAN, trs \in BOOLEAN :
       call' = [op |-> "build", args |-> <<sgs, trs>>]
  /\ nbuilds' = nbuilds + 1
  /\ ret' = None
  /\ UNCHANGED <<cell, self>>

\* kpts.build(space_group_symmetry, time_reversal_symmetry): the first build, or
\* a re-build (make_kpts given the KPoints object); make_kpairs keeps its default
Build ==
  /\ cell.built
  /\ nbuilds < MaxBuilds
  /\ call.op \in {"KPoints", "build"}
  /\ \E sgs \in BOOLEAN, trs \in BOOLEAN :
       /\ self' = KPoints_build(self, cell.ops, sgs, trs, TRUE)
       /\ call' = [op |-> "build", args |-> <<sgs, trs>>]
  /\ nbuilds' = nbuilds + 1
  /\ ret' = "self"
  /\ UNCHANGED cell

\* kpts.make_kpairs_ibz(permutation_symmetry)
MakeKpairs ==
  /\ Fresh
  /\ \E perm \in BOOLEAN :
       /\ self' = make_kpairs_ibz(self, perm)
       /\ call' = [op |-> "make_kpairs_ibz", args |-> <<perm>>]
  /\ ret' = None
  /\ UNCHANGED <<cell, nbuilds>>

\* kpts.make_gdf_kptij_lst_jk()
MakeGdf ==
  /\ Fresh
  /\ call' = [op |-> "make_gdf_kptij_lst_jk", args |-> <<>>]
  /\ ret' = make_gdf_kptij_lst_jk(self)
  /\ UNCHANGED <<cell, self, nbuilds>>

\* kpts.transform_single_mo_coeff(mo_coeff_ibz, k)
TransformMoCoeffK ==
  /\ Fresh
  /\ \E k \in 0..(self.nkpts - 1) :
       /\ call' = [op |-> "transform_mo_coeff_k", args |-> <<k>>]
       /\ ret' = transform_mo_coeff_k(self, IbzInput(self, FALSE), k)
  /\ UNCHANGED <<cell, self, nbuilds>>

\* kpts.transform_mo_coeff / transform_dm / transform_mo_occ / transform_mo_energy
TransformAll ==
  /\ Fresh
  /\ \E fn \in TransformFns, is_uhf \in BOOLEAN :
       /\ call' = [op |-> fn, args |-> <<is_uhf>>]
       /\ ret' = transform_all(fn, self, IbzInput(self, is_uhf), is_uhf)
  /\ UNCHANGED <<cell, self, nbuilds>>

\* kpts.check_mo_occ_symmetry(mo_occ)
CheckMoOcc ==
  /\ Fresh
  /\ \E kpert \in 0..(self.nkpts - 1), delta \in OccDeltas :
       /\ call' = [op |-> "check_mo_occ_symmetry", args |-> <<OccInput(self, kpert, delta)>>]
       /\ ret' = check_mo_occ_symmetry(self, OccInput(self, kpert, delta), OccTol)
  /\ UNCHANGED <<cell, self, nbuilds>>

\* symmetrize_density(kpts, rhoR_k, ibz_k_idx, mesh)
SymmetrizeDensity ==
  /\ Fresh
  /\ \E ibz_k_idx \in 0..(self.nkpts_ibz - 1), dtype \in DTypes :
       /\ call' = [op |-> "symmetrize_density", args |-> <<ibz_k_idx, dtype>>]
       /\ ret' = symmetrize_density(self, dtype, ibz_k_idx)
  /\ UNCHANGED <<cell, self, nbuilds>>

Next ==
  \/ BuildUnbuiltCell
  \/ Build
  \/ MakeKpairs
  \/ MakeGdf
  \/ TransformMoCoeffK
  \/ TransformAll
  \/ CheckMoOcc
  \/ SymmetrizeDensity

Spec == Init /\ [][Next]_vars

\* ------------------------------------------------ map_k_points_fast alone
\* a scaled mesh and the operations of a cell, before the call
InitMap ==
  /\ cell \in [ops : CellGroups, built : {TRUE}]
  /\ self = None
  /\ nbuilds = 0
  /\ \E m \in FineMeshes(MaxFineK) : call = [op |-> "scaled_mesh", args |-> <<m>>]
  /\ ret = None

\* map_k_points_fast(kpts_scaled, op_rot), op_rot with or without the negatives
MapKPointsFast ==
  /\ call.op = "scaled_mesh"
  /\ \E time_reversal \in BOOLEAN :
       /\ call' = [op |-> "map_k_points_fast",
                   args |-> <<call.args[1], op_rot_of(cell.ops, time_reversal)>>]
       /\ ret' = map_k_points_fast_ret(call.args[1], op_rot_of(cell.ops, time_reversal),
                                       KPTS_DIFF_TOL)
  /\ UNCHANGED <<cell, self, nbuilds>>

NextMap == MapKPointsFast

SpecMap == InitMap /\ [][NextMap]_vars

\* -------------------------------------------------------------- properties
RECURSIVE SumTo(_, _)
SumTo(f, n) == IF n < 0 THEN 0 ELSE f[n] + SumTo(f, n - 1)

\* sum of an integer array
Sum0(f) == SumTo(f, Len0(f) - 1)

\* the positions (i, p) with stars[i][p] = k
star_positions(k) ==
  {ip \in UNION {{<<i, p>> : p \in DOMAIN self.stars[i]} : i \in DOMAIN self.stars} :
     self.stars[ip[1]][ip[2]] = k}

\* the BZ points of orbit i according to bz2ibz
orbit_of(i) == {k \in 0..(self.nkpts - 1) : self.bz2ibz[k] = i}

\* the object is as the last call wrote it: only build and make_kpairs_ibz write the
\* bookkeeping, every other call leaves the object unchanged
Written == Built /\ call.op \in {"build", "make_kpairs_ibz"}

\* C1: after one or more build() calls (first build or re-build) stars is a
\* partition of {0..nkpts-1}: every BZ index occurs in exactly one stars[i],
\* exactly once, and len(stars) = nkpts_ibz.
C1_StarsPartition ==
  Built => /\ Len0(self.stars) = self.nkpts_ibz
           /\ \A k \in 0..(self.nkpts - 1) : Cardinality(star_positions(k)) = 1

\* C2: after make_kpts_ibz, weights_ibz has nkpts_ibz entries, weights_ibz[i] * nkpts
\* is the number of BZ points k with bz2ibz[k] = i, which is |stars[i]|, and the
\* weights sum to 1.
C2_WeightNormalization ==
  Built => /\ Len0(self.weights_ibz) = self.nkpts_ibz
           /\ \A i \in 0..(self.nkpts_ibz - 1) :
                /\ self.weights_ibz[i].den = self.nkpts
                /\ self.weights_ibz[i].num = Cardinality(orbit_of(i))
                /\ self.weights_ibz[i].num = Len0(self.stars[i])
           /\ Sum0(Arr([i \in DOMAIN self.weights_ibz |-> self.weights_ibz[i].num])) = self.nkpts

\* C3: orbit closure: for every BZ point k and every column s of k2opk (the
\* time-reversal-doubled columns included) with k2opk[k][s] # -1, the image lies in
\* the orbit of k: bz2ibz[k2opk[k][s]] = bz2ibz[k]; also when k2opk holds -1 entries.
C3_OrbitClosure ==
  Written => \A k \in 0..(self.nkpts - 1) : \A s \in DOMAIN self.k2opk[k] :
              self.k2opk[k][s] # -1 => self.bz2ibz[self.k2opk[k][s]] = self.bz2ibz[k]

\* a built mesh with time reversal, a -1 entry in k2opk, and a doubled column that
\* takes some point to another point
C3_Witness ==
  /\ Built
  /\ self.time_reversal
  /\ \E k \in 0..(self.nkpts - 1) : \E s \in DOMAIN self.k2opk[k] : self.k2opk[k][s] = -1
  /\ \E k \in 0..(self.nkpts - 1) : \E s \in DOMAIN self.k2opk[k] :
        s >= self.nop /\ self.k2opk[k][s] \notin {-1, k}

\* C4: identity round-trip: an object built with an operation set that contains
\* only the identity (one operation, the identity, and no doubling by time
\* reversal, which would add -identity to the set) has nkpts_ibz = nkpts,
\* bz2ibz[k] = k and weights_ibz[k] = 1/nkpts for every BZ index k.
C4_IdentityRoundTrip ==
  (Written /\ self.nop = 1 /\ is_eye(self.ops[0]) /\ ~self.time_reversal) =>
     /\ self.nkpts_ibz = self.nkpts
     /\ \A k \in 0..(self.nkpts - 1) :
          self.bz2ibz[k] = k /\ self.weights_ibz[k] = [num |-> 1, den |-> self.nkpts]

\* an identity-only build of a mesh of at least 3 points that holds a pair k, -k,
\* on a cell that has more operations
C4_Witness ==
  /\ Built /\ self.nop = 1 /\ is_eye(self.ops[0]) /\ ~self.time_reversal
  /\ Len0(cell.ops) > 1
  /\ self.nkpts >= 3
  /\ \E k1 \in 0..(self.nkpts - 1), k2 \in 0..(self.nkpts - 1) :
        k1 # k2 /\ self.kpts_scaled[k1] = MatVec(Inversion, self.kpts_scaled[k2])

\* a pair weight in units of 1/(2 nkpts^2)
weight_units(w) == w.num * ((2 * self.nkpts * self.nkpts) \div w.den)

\* C5: pair permutation weight conservation: after make_kpairs_ibz with permutation
\* symmetry the sum of ibz_kk_s2_weight is 1 and equals the sum of ibz_kk_weight,
\* and a diagonal pair (i, i) keeps its orbit weight.
C5_PairWeightConservation ==
  Written =>
    /\ Sum0(Arr([r \in DOMAIN self.ibz_kk_s2_weight |->
                   weight_units(self.ibz_kk_s2_weight[r])])) = 2 * self.nkpts * self.nkpts
    /\ Sum0(Arr([o \in DOMAIN self.ibz_kk_weight |->
                   weight_units(self.ibz_kk_weight[o])])) = 2 * self.nkpts * self.nkpts
    /\ \A r \in DOMAIN self.ibz2bz_kk_s2 :
         (self.ibz2bz_kk_s2[r] \div self.nkpts) = (self.ibz2bz_kk_s2[r] % self.nkpts) =>
            self.ibz_kk_s2_weight[r] = self.ibz_kk_weight[self.bz2ibz_kk[self.ibz2bz_kk_s2[r]]]

\* 4 k-points under a group of order 2: the reduced list is shorter than the
\* unreduced one, and holds a doubled and a halved entry
C5_Witness ==
  /\ Built /\ self.nkpts = 4 /\ self.nop = 2
  /\ Len0(self.ibz2bz_kk_s2) < Len0(self.ibz2bz_kk)
  /\ \E r \in DOMAIN self.ibz_kk_s2_weight :
        self.ibz_kk_s2_weight[r].den = 2 * self.nkpts * self.nkpts
  /\ \E r \in DOMAIN self.ibz_kk_s2_weight :
        self.ibz_kk_s2_weight[r].num =
           2 * self.ibz_kk_weight[self.bz2ibz_kk[self.ibz2bz_kk_s2[r]]].num

\* C6: for every BZ point k, with r = ibz2bz[bz2ibz[k]], the recorded operation
\* links r to k: k2opk[r][stars_ops_bz[k] + nop * time_reversal_symm_bz[k]] = k,
\* after every build, also when a column of k2opk holds -1.
C6_ConnectingOpLinks ==
  Built => \A k \in 0..(self.nkpts - 1) :
     LET r == self.ibz2bz[self.bz2ibz[k]]
         c == self.stars_ops_bz[k] + self.nop * self.time_reversal_symm_bz[k]
     IN  c \in DOMAIN self.k2opk[r] /\ self.k2opk[r][c] = k

\* the pairs of the second part of the list make_gdf_kptij_lst_jk returned
gdf_tail == {ret[n] : n \in {m \in DOMAIN ret : m >= self.nkpts}}

\* the list starts with (kpts[i], kpts[i]) for every BZ point i and goes on with the
\* pairs (kpts_ibz[i], kpts[j]) with emitted(i, j), each once
gdf_list_is(emitted(_, _)) ==
  /\ \A i \in 0..(self.nkpts - 1) : i \in DOMAIN ret /\ ret[i] = <<self.kpts[i], self.kpts[i]>>
  /\ gdf_tail = {<<self.kpts_ibz[ij[1]], self.kpts[ij[2]]>> :
                   ij \in {p \in (0..(self.nkpts_ibz - 1)) \X (0..(self.nkpts - 1)) :
                             emitted(p[1], p[2])}}
  /\ Len0(ret) = self.nkpts + Cardinality(gdf_tail)

\* C7 as stated: after the pairs (k_i, k_i), the pair (kpts_ibz[i], kpts[j]) is
\* emitted if and only if j is not a member of stars[i].
C7_GdfSkipsOrbit ==
  call.op = "make_gdf_kptij_lst_jk" =>
     gdf_list_is(LAMBDA i, j : j \notin Range0(self.stars[i]))

\* C7 amended: after the pairs (k_i, k_i), the pair (kpts_ibz[i], kpts[j]) is
\* emitted if and only if kpts[j] is not the representative kpts_ibz[i] itself.
C7_GdfSkipsRepresentative ==
  call.op = "make_gdf_kptij_lst_jk" =>
     gdf_list_is(LAMBDA i, j : self.kpts[j] # self.kpts_ibz[i])

\* the list holds a pair of a representative with another member of its orbit
C7_Witness ==
  /\ call.op = "make_gdf_kptij_lst_jk"
  /\ \E i \in 0..(self.nkpts_ibz - 1), j \in 0..(self.nkpts - 1) :
        /\ self.bz2ibz[j] = i /\ j # self.ibz2bz[i]
        /\ <<self.kpts_ibz[i], self.kpts[j]>> \in gdf_tail

\* the four cases of the transport rule for BZ point k and the IBZ input of one spin
transport_rule(kind, spin, k) ==
  LET Q == Quantity(spin, self.bz2ibz[k])
      op == self.ops[self.stars_ops_bz[k]]
      tr == self.time_reversal_symm_bz[k] # 0
      Rotate == [Q EXCEPT !.rot = <<kind, self.stars_ops_bz[k]>>]
  IN  CASE is_eye(op) /\ ~tr -> Q
        [] is_eye(op) /\ tr -> [Q EXCEPT !.conj = TRUE]
        [] ~is_eye(op) /\ is_inversion(op) -> [Q EXCEPT !.conj = TRUE]
        [] OTHER -> IF tr THEN [Rotate EXCEPT !.conj = TRUE] ELSE Rotate

\* the value a transform over all BZ points returned for spin s and BZ point k
returned_at(s, k) == IF call.args[1] THEN ret.value[s][k] ELSE ret.value[k]

\* the spin channels of the input of the last transform
spins_of_call == IF call.args[1] THEN {0, 1} ELSE {0}

\* C8: per-BZ-point transport rule: transform_mo_coeff_k, transform_mo_coeff and
\* transform_dm give Q for the identity without time reversal, conj(Q) for the
\* identity with time reversal, conj(Q) for the inversion, and
\* conj_if(tr, Rotate(Q, op)) otherwise, with Q = Q_ibz[bz2ibz[k]],
\* op = ops[stars_ops_bz[k]], tr = time_reversal_symm_bz[k]; transform_mo_occ and
\* transform_mo_energy give Q_ibz[bz2ibz[k]].  Nothing is returned only when
\* stars_ops_bz[k] is no index of ops.
C8_TransportRule ==
  /\ call.op = "transform_mo_coeff_k" =>
        IF ret.raised = None
        THEN ret.value = transport_rule("mo_coeff", 0, call.args[1])
        ELSE self.stars_ops_bz[call.args[1]] \notin DOMAIN self.ops
  /\ call.op \in {"transform_mo_coeff", "transform_dm"} =>
        IF ret.raised = None
        THEN \A s \in spins_of_call : \A k \in 0..(self.nkpts - 1) :
                returned_at(s, k) =
                   transport_rule(IF call.op = "transform_dm" THEN "dm" ELSE "mo_coeff", s, k)
        ELSE \E k \in 0..(self.nkpts - 1) : self.stars_ops_bz[k] \notin DOMAIN self.ops
  /\ call.op \in {"transform_mo_occ", "transform_mo_energy"} =>
        /\ ret.raised = None
        /\ \A s \in spins_of_call : \A k \in 0..(self.nkpts - 1) :
              returned_at(s, k) = Quantity(s, self.bz2ibz[k])

\* transform_dm of one spin channel returned for a mesh with a point reached by the identity without
\* time reversal and a point reached by another operation with time reversal
C8_Witness ==
  /\ call.op = "transform_dm" /\ ~call.args[1] /\ ret.raised = None
  /\ \E k \in 0..(self.nkpts - 1) :
        /\ is_eye(self.ops[self.stars_ops_bz[k]]) /\ self.time_reversal_symm_bz[k] = 0
        /\ ret.value[k] = Quantity(0, self.bz2ibz[k])
  /\ \E k \in 0..(self.nkpts - 1) :
        /\ ~is_eye(self.ops[self.stars_ops_bz[k]]) /\ self.time_reversal_symm_bz[k] = 1
        /\ ret.value[k].conj /\ ret.value[k].rot # <<>>

\* some orbit of stars has two members whose occupations differ by tol or more
\* in some component
occ_differs_in_star(mo_occ, tol) ==
  \E s \in DOMAIN self.stars :
     \E i \in DOMAIN self.stars[s], j \in DOMAIN self.stars[s] :
        /\ i # j
        /\ \E c \in DOMAIN mo_occ[self.stars[s][i]] :
              Abs(mo_occ[self.stars[s][i]][c] - mo_occ[self.stars[s][j]][c]) >= tol

\* what check_mo_occ_symmetry(mo_occ) has to give on the object as it is
check_mo_occ_post ==
  IF occ_differs_in_star(call.args[1], OccTol)
  THEN ret = [raised |-> "RuntimeError", value |-> None]
  ELSE /\ ret.raised = None
       /\ DOMAIN ret.value = 0..(self.nkpts_ibz - 1)
       /\ \A i \in 0..(self.nkpts_ibz - 1) : ret.value[i] = call.args[1][self.ibz2bz[i]]

\* C9: check_mo_occ_symmetry returns [mo_occ[ibz2bz[i]] : i < nkpts_ibz] when in
\* every orbit of stars all members agree within tol in every component, raises
\* RuntimeError when two members of an orbit differ by tol or more, and leaves the
\* KPoints object as it was in either case.
C9_CheckMoOcc ==
  [][call'.op = "check_mo_occ_symmetry" => (self' = self /\ check_mo_occ_post')]_vars

\* the check returned although a member of an orbit of two or more points was
\* shifted by less than tol
C9_Witness ==
  /\ call.op = "check_mo_occ_symmetry" /\ ret.raised = None
  /\ \E k \in 0..(self.nkpts - 1) :
        /\ Cardinality(orbit_of(self.bz2ibz[k])) >= 2
        /\ call.args[1][k] # call.args[1][self.ibz2bz[self.bz2ibz[k]]]

\* the flat index of the swapped pair (j, i)
swapped(flat) == (flat % self.nkpts) * self.nkpts + (flat \div self.nkpts)

\* C10: pair orbits related by the swap (i, j) -> (j, i) are merged: every pair
\* orbit o has exactly one entry of ibz2bz_kk_s2 that represents o or the swap of o.
C10_SwapOrbitsMerged ==
  Built => \A o \in DOMAIN self.ibz2bz_kk :
     Cardinality({r \in DOMAIN self.ibz2bz_kk_s2 :
                    \/ self.bz2ibz_kk[self.ibz2bz_kk_s2[r]] = o
                    \/ self.bz2ibz_kk[swapped(self.ibz2bz_kk_s2[r])] = o}) = 1

\* the flat index of the image of the pair flat under column s of k2opk, -1 when
\* a component has no image
pair_image(flat, s) ==
  LET a == self.k2opk[flat \div self.nkpts][s]
      b == self.k2opk[flat % self.nkpts][s]
  IN  IF a = -1 \/ b = -1 THEN -1 ELSE a * self.nkpts + b

\* the columns of k2opk that take the pair flat to itself
pair_stabilizer(flat) == {s \in DOMAIN self.k2opk[0] : pair_image(flat, s) = flat}

\* C11 as stated: for every pair orbit o, kk_sym_group[o] is exactly the set of
\* operation indices s with (k2opk[i][s], k2opk[j][s]) = (i, j), the stabilizer of
\* the representative pair (i, j) = ibz2bz_kk[o].
C11_StabilizerRecorded ==
  Built => \A o \in DOMAIN self.ibz2bz_kk :
     Range0(self.kk_sym_group[o]) = pair_stabilizer(self.ibz2bz_kk[o])

\* C11 amended: for every pair orbit o, kk_group[o] lists in increasing order the
\* distinct images of the representative pair ibz2bz_kk[o] under the columns of
\* k2opk, and kk_sym_group[o][n] is the lowest column that takes the
\* representative to kk_group[o][n]: one operation per image, not the stabilizer.
C11_ImagesAndFirstOps ==
  Written => \A o \in DOMAIN self.ibz2bz_kk :
     LET rep == self.ibz2bz_kk[o]
         grp == self.kk_group[o]
         sym == self.kk_sym_group[o]
     IN  /\ Range0(grp) = {pair_image(rep, s) : s \in DOMAIN self.k2opk[0]} \ {-1}
         /\ \A m \in DOMAIN grp, n \in DOMAIN grp : m < n => grp[m] < grp[n]
         /\ DOMAIN sym = DOMAIN grp
         /\ \A n \in DOMAIN grp :
               /\ sym[n] \in DOMAIN self.k2opk[0]
               /\ pair_image(rep, sym[n]) = grp[n]
               /\ \A s \in DOMAIN self.k2opk[0] : pair_image(rep, s) = grp[n] => sym[n] <= s

\* a group of order 4 with a pair orbit whose representative has a stabilizer of
\* two operations and two images, and a pair orbit that loses an image to a -1
C11_Witness ==
  /\ Built /\ self.nop = 4
  /\ \E o \in DOMAIN self.ibz2bz_kk :
        /\ Cardinality(pair_stabilizer(self.ibz2bz_kk[o])) = 2
        /\ Len0(self.kk_sym_group[o]) = 2
        /\ Range0(self.kk_sym_group[o]) # pair_stabilizer(self.ibz2bz_kk[o])
  /\ \E o \in DOMAIN self.ibz2bz_kk : \E s \in DOMAIN self.k2opk[0] :
        pair_image(self.ibz2bz_kk[o], s) = -1

\* the images of BZ point k under the columns of k2opk
point_images(k) == {self.k2opk[k][s] : s \in DOMAIN self.k2opk[k]} \ {-1}

\* the images of the pair flat under the columns of k2opk
pair_images(flat) == {pair_image(flat, s) : s \in DOMAIN self.k2opk[0]} \ {-1}

\* rep is the highest index of the orbit of every index: of the indices mapped to
\* the same orbit, and of the images of the index; to_orbit and to_rep invert each
\* other on the orbits, and to_rep is strictly increasing
highest_index_rule(n, to_orbit, to_rep, images(_)) ==
  /\ DOMAIN to_orbit = 0..(n - 1)
  /\ \A k \in 0..(n - 1) :
        /\ to_orbit[k] \in DOMAIN to_rep
        /\ to_rep[to_orbit[k]] >= k
        /\ \A t \in 0..(n - 1) : to_orbit[t] = to_orbit[k] => t <= to_rep[to_orbit[k]]
        /\ to_rep[to_orbit[k]] \in images(k)
        /\ \A t \in images(k) : t <= to_rep[to_orbit[k]]
  /\ \A i \in DOMAIN to_rep : to_rep[i] \in 0..(n - 1) /\ to_orbit[to_rep[i]] = i
  /\ \A i \in DOMAIN to_rep, j \in DOMAIN to_rep : i < j => to_rep[i] < to_rep[j]

\* C12: the decreasing-index claim pass selects the highest index: for every BZ
\* point k, ibz2bz[bz2ibz[k]] is the highest BZ index of the orbit of k (so it is
\* >= k and bz2ibz[ibz2bz[i]] = i for every orbit i), and ibz2bz is strictly
\* increasing; the same for the flat pair indices with ibz2bz_kk and bz2ibz_kk.
C12_HighestIndexRepresentative ==
  Written =>
    /\ highest_index_rule(self.nkpts, self.bz2ibz, self.ibz2bz, point_images)
    /\ highest_index_rule(self.nkpts * self.nkpts, self.bz2ibz_kk, self.ibz2bz_kk, pair_images)

\* a mesh with -1 entries in k2opk, a point orbit and a pair orbit of three or
\* more members, and a representative that is not the image under column 1
C12_Witness ==
  /\ Built
  /\ \E k \in 0..(self.nkpts - 1) : \E s \in DOMAIN self.k2opk[k] : self.k2opk[k][s] = -1
  /\ \E k \in 0..(self.nkpts - 1) :
        /\ Cardinality(orbit_of(self.bz2ibz[k])) >= 3
        /\ self.ibz2bz[self.bz2ibz[k]] \notin {k, self.k2opk[k][1]}
  /\ \E f \in DOMAIN self.bz2ibz_kk :
        /\ Cardinality({g \in DOMAIN self.bz2ibz_kk : self.bz2ibz_kk[g] = self.bz2ibz_kk[f]}) >= 3
        /\ self.ibz2bz_kk[self.bz2ibz_kk[f]] # f

\* p and q coincide modulo an integer translation within tol on every axis
coincide(p, q, tol) == \A c \in 1..3 : frac_dist(p[c] - q[c]) <= tol

\* no two points of the mesh coincide within tol
pairwise_inequivalent(mesh, tol) ==
  \A k1 \in DOMAIN mesh, k2 \in DOMAIN mesh : k1 # k2 => ~coincide(mesh[k1], mesh[k2], tol)

\* table[k1][s] = k2 exactly when ops[s] mesh[k1] coincides with mesh[k2], and -1
\* exactly when it coincides with no point of the mesh
table_is_exact(table, mesh, ops, tol) ==
  /\ DOMAIN table = DOMAIN mesh
  /\ \A k1 \in DOMAIN mesh :
        /\ DOMAIN table[k1] = DOMAIN ops
        /\ \A s \in DOMAIN ops :
              /\ table[k1][s] \in DOMAIN mesh \cup {-1}
              /\ \A k2 \in DOMAIN mesh :
                    table[k1][s] = k2 <=> coincide(MatVec(ops[s], mesh[k1]), mesh[k2], tol)
  /\ \A s \in DOMAIN ops : \A k1 \in DOMAIN mesh, k2 \in DOMAIN mesh :
        (k1 # k2 /\ table[k1][s] # -1) => table[k1][s] # table[k2][s]

\* C13: for a mesh of pairwise inequivalent scaled k-points map_k_points_fast
\* returns the table with table[k1][s] = k2 exactly when ops[s] k1 coincides with
\* k2 modulo an integer translation within tol, and -1 exactly when no mesh point is
\* that image, so that every column is injective on its entries other than -1;
\* when an original point is equivalent to another original point the assertion
\* fails and no table is returned.
C13_MapSemantics ==
  call.op = "map_k_points_fast" =>
     IF pairwise_inequivalent(call.args[1], KPTS_DIFF_TOL)
     THEN /\ ret.raised = None
          /\ table_is_exact(ret.value, call.args[1], call.args[2], KPTS_DIFF_TOL)
     ELSE ret.raised = "AssertionError"

\* the operations that fix the representative of orbit i, with or without time reversal
little_group(i) ==
  {s % self.nop : s \in {c \in DOMAIN self.k2opk[self.ibz2bz[i]] :
                            self.k2opk[self.ibz2bz[i]][c] = self.ibz2bz[i]}}

\* C14 as stated: symmetrize_density accumulates exactly one contribution per
\* operation of the stabilizer of representative i, the operations s with
\* k2opk[ibz2bz[i]][s] = ibz2bz[i], and none for an operation that takes the
\* representative to another member of the orbit.
C14_StabilizerTerms ==
  (call.op = "symmetrize_density" /\ ret.raised = None) =>
     /\ Len0(ret.value) = Cardinality(little_group(call.args[1]))
     /\ {ret.value[n].iop : n \in DOMAIN ret.value} = little_group(call.args[1])

\* the term the loop adds for operation iop
term_of(iop, dtype) ==
  IF self.ops[iop] \in {E, Inversion}
  THEN [iop |-> iop, kernel |-> None, op_rot |-> None]
  ELSE [iop |-> iop,
        kernel |-> IF dtype = "complex128" THEN "symmetrize_complex" ELSE "symmetrize",
        op_rot |-> CHOOSE m \in Range0(self.ops) : \A p \in KGrid : MatVec(m, MatVec(self.ops[iop], p)) = p]

\* C14 amended: symmetrize_density accumulates one contribution per entry of
\* stars_ops[i], in order: rhoR_k itself for the identity and the inversion, the
\* kernel's output for the inverse rotation otherwise.  The entries are the
\* connecting operations of the members of the orbit: after a first build with no
\* -1 in k2opk there are |stars[i]| terms and the n-th operation, with or without
\* time reversal, takes the representative to stars[i][n].  RuntimeError is raised
\* for a dtype other than double and complex128, IndexError when an entry of
\* stars_ops[i] is no index of ops.
C14_ConnectingOpTerms ==
  call.op = "symmetrize_density" =>
     LET i == call.args[1]
         dtype == call.args[2]
         iops == self.stars_ops[i]
         r == self.ibz2bz[i]
     IN  /\ ret.raised = "RuntimeError" <=> dtype \notin {"double", "complex128"}
         /\ ret.raised = "IndexError" <=>
               /\ dtype \in {"double", "complex128"}
               /\ \E n \in DOMAIN iops : iops[n] \notin 0..(self.nop - 1)
         /\ ret.raised = None =>
               /\ DOMAIN ret.value = DOMAIN iops
               /\ \A n \in DOMAIN iops : ret.value[n] = term_of(iops[n], dtype)
               /\ (nbuilds = 1 /\ \A k \in DOMAIN self.k2opk : -1 \notin Range0(self.k2opk[k])) =>
                     /\ Len0(ret.value) = Len0(self.stars[i])
                     /\ \A n \in DOMAIN iops :
                           \E c \in DOMAIN self.k2opk[r] :
                              c % self.nop = iops[n] /\ self.k2opk[r][c] = self.stars[i][n]

\* the density of the representative of an orbit of four points, fixed by the
\* identity alone, is returned as four terms, one of them a kernel output
C14_Witness ==
  /\ call.op = "symmetrize_density" /\ ret.raised = None /\ nbuilds = 1
  /\ Cardinality(orbit_of(call.args[1])) = 4
  /\ little_group(call.args[1]) = {0}
  /\ Len0(ret.value) = 4
  /\ \E n \in DOMAIN ret.value : ret.value[n].kernel = "symmetrize"

====
